---- MODULE Spec2Model ----
(***************************************************************************)
(* A model of the two pipelines of the repository:                         *)
(*   scripts/daily_brief.py  the 3-tier section summarizer and its driver  *)
(*   scripts/up_ahead.py     the event-document merge and its driver, and  *)
(*                           the fallback generator of event documents     *)
(*                                                                         *)
(* Python values are represented as follows.                               *)
(*   str (short)   a sequence of one-character strings, <<"A", "b">>;      *)
(*                 the bullet character U+2022 is written "*".             *)
(*   str (body)    article body text, run-length encoded: a sequence of    *)
(*                 runs [ch |-> c, n |-> k], k > 0, standing for k copies  *)
(*                 of c.  Only length, emptiness, slicing and joining of   *)
(*                 body text are ever used by the code.                    *)
(*   dict          a function whose domain is the set of keys (a record).  *)
(*   list          a sequence.                                             *)
(*   None          NoneDict where a dict is expected, NoneStr where a str  *)
(*                 is expected.                                            *)
(***************************************************************************)
EXTENDS Integers, Sequences, FiniteSets, TLC

VARIABLES
    model,      \* daily_brief.model: TRUE when the Gemini handle was configured
    HAS_SUMY,   \* daily_brief.HAS_SUMY: the sumy import succeeded
    source,     \* the key of the source being processed by main
    section,    \* the section dict being processed by main
    pc,         \* main's position in the body of the section loop
    result,     \* what summarize_section returned for the section
    tiers,      \* the tiers summarize_section attempted, in order (history)
    llm,        \* the outcome of the LLM call of this section (history)
    sumy,       \* the outcome of the sumy library call (history)
    translation,\* the outcome of the LLM call of translate_titles_batch (history)
    data,       \* data["sources"][key], NoneDict until main sets it
    written,    \* the sources entry of the document at OUTPUT_FILE, NoneDict if absent
    entries,    \* up_ahead: the feed entries fetch_rss_feeds reads (title, link)
    headlines,  \* up_ahead: the text fetch_rss_feeds returned, NoneStr before
    fallback,   \* up_ahead: what generate_fallback_data returned, NoneDict before
    today,      \* up_ahead: datetime.now().date()
    persisted,  \* up_ahead: the document stored at OUTPUT_FILE, NoneDict if absent
    runs,       \* up_ahead: the number of runs of main so far
    today_in,   \* today as the last merge_data read it (history)
    existing_in,\* the existing document as passed to the last merge_data (history)
    new_in,     \* the new document as passed to the last merge_data (history)
    existing,   \* the existing document object after the last merge_data
    new_data,   \* the new document object after the last merge_data
    merged      \* what the last merge_data returned

briefVars == <<model, HAS_SUMY, source, section, pc, result, tiers, llm, sumy,
               translation, data, written>>
upVars == <<today, persisted, runs, today_in, existing_in, new_in, existing, new_data, merged>>
fbVars == <<entries, headlines, fallback>>
vars == <<briefVars, upVars, fbVars>>

(***************************************************************************)
(* Bounds of the model.                                                    *)
(***************************************************************************)
MaxArticles == 11   \* longest article list of a section
MaxShort == 2       \* lists up to this length take every title of TitlePool
MaxBodies == 2      \* at most this many body fetches of a section succeed
MaxRuns == 2        \* runs of the up_ahead pipeline
LastDay == 2        \* the pipeline runs on the days 1..LastDay of January 2024
MaxEntries == 2     \* entries the feeds deliver to fetch_rss_feeds

(***************************************************************************)
(* Program constants.                                                      *)
(***************************************************************************)
BODY_FETCH_LIMIT == 5
BODY_CAP == 3000
HEADLINE_LIMIT == 10
EXTRACTIVE_BODIES == 5
EXTRACTIVE_MIN == 200
SUMY_MIN == 100
FALLBACK_ITEMS == 20

NoneDict == [None |-> TRUE]
NoneStr == <<"None">>

Min(a, b) == IF a < b THEN a ELSE b

(***************************************************************************)
(* str operations                                                          *)
(***************************************************************************)
Whitespace == {" ", "\n", "\t"}

UpperCase == <<"A", "B", "C", "D", "E", "F", "G", "H", "I", "J", "K", "L", "M",
               "N", "O", "P", "Q", "R", "S", "T", "U", "V", "W", "X", "Y", "Z">>
LowerCase == <<"a", "b", "c", "d", "e", "f", "g", "h", "i", "j", "k", "l", "m",
               "n", "o", "p", "q", "r", "s", "t", "u", "v", "w", "x", "y", "z">>

LowerChar(c) ==
    IF \E i \in 1..Len(UpperCase) : UpperCase[i] = c
    THEN LowerCase[CHOOSE i \in 1..Len(UpperCase) : UpperCase[i] = c]
    ELSE c

\* str.lower()
lower(s) == [i \in 1..Len(s) |-> LowerChar(s[i])]

RECURSIVE lstrip(_)
lstrip(s) ==
    IF s # <<>> /\ Head(s) \in Whitespace THEN lstrip(Tail(s)) ELSE s

RECURSIVE rstrip(_)
rstrip(s) ==
    IF s # <<>> /\ s[Len(s)] \in Whitespace
    THEN rstrip(SubSeq(s, 1, Len(s) - 1))
    ELSE s

\* str.strip()
strip(s) == rstrip(lstrip(s))

\* sep.join(parts) for short strings
RECURSIVE join(_, _)
join(sep, parts) ==
    IF parts = <<>> THEN <<>>
    ELSE IF Len(parts) = 1 THEN parts[1]
    ELSE parts[1] \o sep \o join(sep, Tail(parts))

\* The least index at which sub occurs in s, 0 when it does not (str.find + 1).
find(s, sub) ==
    LET hits == {i \in 1..(Len(s) + 1) :
                    /\ i + Len(sub) - 1 <= Len(s)
                    /\ SubSeq(s, i, i + Len(sub) - 1) = sub}
    IN IF hits = {} THEN 0 ELSE CHOOSE i \in hits : \A j \in hits : i <= j

\* s.split(sep), sep non-empty
RECURSIVE split(_, _)
split(s, sep) ==
    LET i == find(s, sep)
    IN IF i = 0 THEN <<s>>
       ELSE <<SubSeq(s, 1, i - 1)>> \o split(SubSeq(s, i + Len(sep), Len(s)), sep)

(***************************************************************************)
(* body text (run-length encoded)                                          *)
(***************************************************************************)
Run(c, k) == IF k = 0 THEN <<>> ELSE <<[ch |-> c, n |-> k]>>

\* len(text)
RECURSIVE TextLen(_)
TextLen(t) == IF t = <<>> THEN 0 ELSE Head(t).n + TextLen(Tail(t))

\* text[:k]
RECURSIVE TextPrefix(_, _)
TextPrefix(t, k) ==
    IF t = <<>> \/ k = 0 THEN <<>>
    ELSE IF Head(t).n >= k THEN Run(Head(t).ch, k)
    ELSE <<Head(t)>> \o TextPrefix(Tail(t), k - Head(t).n)

\* "\n\n".join(texts)
RECURSIVE TextJoin(_)
TextJoin(texts) ==
    IF texts = <<>> THEN <<>>
    ELSE IF Len(texts) = 1 THEN texts[1]
    ELSE texts[1] \o Run("\n", 2) \o TextJoin(Tail(texts))

(***************************************************************************)
(* dict operations                                                         *)
(***************************************************************************)
\* d[k] = v
Put(d, k, v) == [x \in DOMAIN d \cup {k} |-> IF x = k THEN v ELSE d[x]]

\* d.pop(k, None), for its effect on d
Pop(d, k) == [x \in DOMAIN d \ {k} |-> d[x]]

(***************************************************************************)
(* daily_brief.py: the tiers                                               *)
(***************************************************************************)
\* Outcomes of the sumy library call at lines 90-93: the joined sentences, or
\* an exception.
SumyTexts == {<<>>, <<"e", "x">>}
SumyOutcomes ==
    {[kind |-> "text", text |-> t] : t \in SumyTexts} \cup {[kind |-> "raise"]}

\* Outcomes of model.generate_content(prompt) followed by response.text: a
\* text, or an exception whose message does or does not hold "429" and "403".
LlmTexts ==
    { <<>>, <<" ">>, <<"s">>, <<" ", "s", "\n">>,
      <<"s", "|", "|", "|", "t">>, <<"|", "|", "|", "t">>,
      <<"s", "|", "|", "|", " ", "|", "|", "|", "t">> }
LlmOutcomes ==
    {[kind |-> "text", text |-> t] : t \in LlmTexts}
    \cup {[kind |-> "raise", has429 |-> a, has403 |-> b] : a, b \in BOOLEAN}

\* Tier 2.  The guard reads HAS_SUMY; out is what the library does if called.
summarize_extractive_sumy(text, sentence_count, out) ==
    IF ~HAS_SUMY \/ text = <<>> \/ TextLen(text) < SUMY_MIN THEN NoneStr
    ELSE IF out.kind = "text" THEN out.text
    ELSE NoneStr

\* the bullet lines of the articles a[1..], one per article with a non-blank title
RECURSIVE BulletLines(_)
BulletLines(articles) ==
    IF articles = <<>> THEN <<>>
    ELSE LET title == strip(Head(articles).title)
         IN (IF title # <<>> THEN <<(<<"*", " ">> \o title)>> ELSE <<>>)
            \o BulletLines(Tail(articles))

\* Tier 3.
summarize_headline_bullets(articles) ==
    IF articles = <<>> THEN NoneStr
    ELSE LET lines == BulletLines(SubSeq(articles, 1, Min(Len(articles), HEADLINE_LIMIT)))
         IN IF lines # <<>> THEN join(<<"\n">>, lines) ELSE NoneStr

\* Tier 1.  The prompt (lines 146-174) only feeds the LLM, whose answer is out.
_summarize_gemini(source_name, section_name, articles, out) ==
    LET is_tamil == source_name \in {"DINAMANI", "DAILY_THANTHI"}
    IN IF out.kind = "text"
       THEN LET text == strip(out.text)
            IN IF is_tamil /\ find(text, <<"|", "|", "|">>) # 0
               THEN LET parts == split(text, <<"|", "|", "|">>)
                    IN [summary |-> strip(parts[1]), summary_ta |-> strip(parts[2])]
               ELSE [summary |-> text]
       ELSE IF out.has429 THEN [error |-> "Quota Exceeded"]
       ELSE IF out.has403 THEN [error |-> "Invalid API Key"]
       ELSE NoneDict

\* [a.get('body', '') for a in articles if a.get('body')]
RECURSIVE BodyTexts(_)
BodyTexts(articles) ==
    IF articles = <<>> THEN <<>>
    ELSE (IF "body" \in DOMAIN Head(articles) /\ Head(articles).body # <<>>
          THEN <<Head(articles).body>> ELSE <<>>)
         \o BodyTexts(Tail(articles))

\* "\n\n".join(body_texts[:5])
Combined(articles) ==
    LET body_texts == BodyTexts(articles)
    IN TextJoin(SubSeq(body_texts, 1, Min(Len(body_texts), EXTRACTIVE_BODIES)))

\* The gate written as len(combined) >= 200.
ExtractiveGateAtLeast(combined) == TextLen(combined) >= EXTRACTIVE_MIN

\* line 131: whether tier 2 is entered for this combined text
ExtractiveGate(combined) == TextLen(combined) > EXTRACTIVE_MIN

\* line 124: whether the AI tier's result is returned
AiAccepted(r) == r # NoneDict /\ "summary" \in DOMAIN r

\* A summarize_section that falls off its end without the final return.
NoSummaryMissing == NoneDict

\* line 141
NoSummary == [error |-> "No summary generated"]

\* One run of summarize_section: ret is what it returns, tiers the tiers it
\* attempted, in order.
SectionRun(source_name, section_name, articles, llmOut, sumyOut) ==
    IF articles = <<>>
    THEN [ret |-> [error |-> "No articles to summarize"], tiers |-> <<>>]
    ELSE
    LET r1 == IF model
              THEN _summarize_gemini(source_name, section_name, articles, llmOut)
              ELSE NoneDict
        t1 == IF model THEN <<"ai">> ELSE <<>>
    IN IF model /\ AiAccepted(r1) THEN [ret |-> r1, tiers |-> t1]
       ELSE
       LET body_texts == BodyTexts(articles)
           combined == Combined(articles)
           enter2 == body_texts # <<>> /\ ExtractiveGate(combined)
           sumy_summary == IF enter2
                           THEN summarize_extractive_sumy(combined, 8, sumyOut)
                           ELSE NoneStr
           t2 == IF enter2 THEN Append(t1, "extractive") ELSE t1
       IN IF enter2 /\ sumy_summary # NoneStr /\ sumy_summary # <<>>
          THEN [ret |-> [summary |-> sumy_summary, method |-> "extractive"],
                tiers |-> t2]
          ELSE
          LET bullets == summarize_headline_bullets(articles)
              t3 == Append(t2, "headlines")
          IN IF bullets # NoneStr /\ bullets # <<>>
             THEN [ret |-> [summary |-> bullets, method |-> "headlines"],
                   tiers |-> t3]
             ELSE [ret |-> NoSummary, tiers |-> t3]

summarize_section(source_name, section_name, articles, llmOut, sumyOut) ==
    SectionRun(source_name, section_name, articles, llmOut, sumyOut).ret

(***************************************************************************)
(* up_ahead.py: dates                                                      *)
(***************************************************************************)
DigitChars == <<"0", "1", "2", "3", "4", "5", "6", "7", "8", "9">>

IsDigit(c) == \E i \in 1..Len(DigitChars) : DigitChars[i] = c
DigitVal(c) == (CHOOSE i \in 1..Len(DigitChars) : DigitChars[i] = c) - 1

AllDigits(s) == \A i \in 1..Len(s) : IsDigit(s[i])

\* int(s) for a string of digits
RECURSIVE IntOf(_)
IntOf(s) ==
    IF s = <<>> THEN 0 ELSE IntOf(SubSeq(s, 1, Len(s) - 1)) * 10 + DigitVal(s[Len(s)])

IsLeap(y) == (y % 4 = 0 /\ y % 100 # 0) \/ y % 400 = 0

DaysInMonth(y, m) ==
    IF m = 2 THEN (IF IsLeap(y) THEN 29 ELSE 28)
    ELSE IF m \in {4, 6, 9, 11} THEN 30 ELSE 31

ValueError == [ValueError |-> TRUE]

\* datetime.strptime(s, "%Y-%m-%d").date(): %Y takes four digits, %m one or two
\* digits making 1..12, %d one or two digits (or a space and a digit) making
\* 1..31; the whole string must be consumed and the date must exist.
strptime(s) ==
    LET parts == split(s, <<"-">>)
    IN IF Len(parts) # 3 THEN ValueError
       ELSE
       LET ys == parts[1]
           ms == parts[2]
           ds == IF Len(parts[3]) = 2 /\ parts[3][1] = " "
                 THEN SubSeq(parts[3], 2, 2) ELSE parts[3]
       IN IF ~(Len(ys) = 4 /\ AllDigits(ys)) THEN ValueError
          ELSE IF ~(Len(ms) \in {1, 2} /\ AllDigits(ms)) THEN ValueError
          ELSE IF ~(Len(ds) \in {1, 2} /\ AllDigits(ds)) THEN ValueError
          ELSE LET y == IntOf(ys)
                   m == IntOf(ms)
                   d == IntOf(ds)
               IN IF y < 1 \/ m < 1 \/ m > 12 \/ d < 1 \/ d > DaysInMonth(y, m)
                  THEN ValueError
                  ELSE [y |-> y, m |-> m, d |-> d]

\* date >= date
DateGE(a, b) ==
    \/ a.y > b.y
    \/ a.y = b.y /\ a.m > b.m
    \/ a.y = b.y /\ a.m = b.m /\ a.d >= b.d

\* The characters of the model in code-point order, for str < str.
CharOrder == <<"\t", "\n", " ", "*", "-", ".">> \o DigitChars \o UpperCase
             \o LowerCase \o <<"|">>

Ord(c) == CHOOSE i \in 1..Len(CharOrder) : CharOrder[i] = c

\* a < b for strings
RECURSIVE StrLess(_, _)
StrLess(a, b) ==
    IF b = <<>> THEN FALSE
    ELSE IF a = <<>> THEN TRUE
    ELSE IF Head(a) = Head(b) THEN StrLess(Tail(a), Tail(b))
    ELSE Ord(Head(a)) < Ord(Head(b))

\* The strings of a finite set sorted with reverse=True.
RECURSIVE SortedStringsDescending(_)
SortedStringsDescending(keys) ==
    IF keys = {} THEN <<>>
    ELSE LET most == CHOOSE k \in keys : \A o \in keys \ {k} : StrLess(o, k)
         IN <<most>> \o SortedStringsDescending(keys \ {most})

\* sorted(keys): the strings of a finite set, ascending
RECURSIVE SortedStrings(_)
SortedStrings(keys) ==
    IF keys = {} THEN <<>>
    ELSE LET least == CHOOSE k \in keys : \A o \in keys \ {k} : StrLess(k, o)
         IN <<least>> \o SortedStrings(keys \ {least})

(***************************************************************************)
(* up_ahead.py: merge_data                                                 *)
(***************************************************************************)
\* d.get(k, default)
Get(d, k, default) == IF k \in DOMAIN d THEN d[k] ELSE default

EmptyDict == <<>>

\* bool(existing): None and the empty dict are false
Truthy(d) == d # NoneDict /\ DOMAIN d # {}

Range(q) == {q[i] : i \in 1..Len(q)}

\* The element of a one-element set.  Written Only({F(x) : x \in {e}}), it has
\* e evaluated once however often F uses x.
Only(S) == CHOOSE x \in S : TRUE

\* A reference to a day bucket: bucket idx of the timeline of the existing
\* document ("e") or of the new one ("n").  timeline_map holds references, so
\* a change of a mapped bucket is a change of the document that owns it.
Ref(doc, idx) == [doc |-> doc, idx |-> idx]

Deref(st, r) == IF r.doc = "e" THEN st.ex[r.idx] ELSE st.nw[r.idx]

\* The test written as date_obj > today.
KeepsBucketAfterToday(date_obj) ==
    date_obj # ValueError /\ DateGE(date_obj, today) /\ date_obj # today

\* The test with the ValueError handler keeping the bucket.
KeepsBucketUnparsed(date_obj) ==
    IF date_obj = ValueError THEN TRUE ELSE DateGE(date_obj, today)

\* lines 236-239: a bucket is kept when its date parses and is today or later
KeepsBucket(date_obj) == date_obj # ValueError /\ DateGE(date_obj, today)

\* lines 234-240: the existing buckets dated today or later enter timeline_map
RECURSIVE SeedExisting(_, _)
SeedExisting(st, i) ==
    IF i > Len(st.ex) THEN st
    ELSE LET day == st.ex[i]
             date_obj == strptime(day.date)
             next == IF KeepsBucket(date_obj)
                     THEN [st EXCEPT !.map = Put(@, day.date, Ref("e", i))]
                     ELSE st
         IN Only({SeedExisting(s, i + 1) : s \in {next}})

\* lines 256-258: the new items whose lower-cased title is not an existing title
RECURSIVE NewTitled(_, _)
NewTitled(new_items, existing_titles) ==
    IF new_items = <<>> THEN <<>>
    ELSE (IF lower(Get(Head(new_items), "title", <<>>)) \notin existing_titles
          THEN <<Head(new_items)>> ELSE <<>>)
         \o NewTitled(Tail(new_items), existing_titles)

\* The titles compared as they are, without lower().
MergedItemsCaseSensitive(existing_items, new_items) ==
    existing_items
    \o SelectSeq(new_items,
                 LAMBDA item : \A e \in Range(existing_items) :
                                  Get(e, "title", <<>>) # Get(item, "title", <<>>))

\* lines 250-260: the items of the mapped bucket after merging a new bucket in
MergedItems(existing_items, new_items) ==
    LET existing_titles == {lower(Get(item, "title", <<>>)) : item \in Range(existing_items)}
    IN existing_items \o NewTitled(new_items, existing_titles)

\* lines 244-260: the new buckets are inserted or merged into the mapped bucket
RECURSIVE MergeIncoming(_, _)
MergeIncoming(st, j) ==
    IF j > Len(st.nw) THEN st
    ELSE LET day == st.nw[j]
             date_str == day.date
             r == st.map[date_str]
             items == MergedItems(Get(Deref(st, r), "items", <<>>),
                                  Get(day, "items", <<>>))
             next == IF date_str \notin DOMAIN st.map
                     THEN [st EXCEPT !.map = Put(@, date_str, Ref("n", j))]
                     ELSE IF r.doc = "e"
                     THEN [st EXCEPT !.ex[r.idx] = Put(@, "items", items)]
                     ELSE [st EXCEPT !.nw[r.idx] = Put(@, "items", items)]
         IN Only({MergeIncoming(s, j + 1) : s \in {next}})

\* line 263: the mapped buckets sorted by their date string
SortedTimeline(st) ==
    LET keys == SortedStrings(DOMAIN st.map)
    IN [i \in 1..Len(keys) |-> Deref(st, st.map[keys[i]])]

\* lines 228-263: ex and nw are the two timelines after the merge, timeline
\* the merged one
MergeTimeline(existing_doc, new_doc) ==
    LET st0 == [ex |-> Get(existing_doc, "timeline", <<>>),
                nw |-> Get(new_doc, "timeline", <<>>),
                map |-> EmptyDict]
    IN Only({ Only({ [ex |-> st2.ex, nw |-> st2.nw, timeline |-> SortedTimeline(st2)]
                     : st2 \in {IF "timeline" \in DOMAIN new_doc
                                THEN MergeIncoming(st1, 1) ELSE st1} })
              : st1 \in {IF "timeline" \in DOMAIN existing_doc
                         THEN SeedExisting(st0, 1) ELSE st0} })

\* lines 282-293: the items of list whose stripped, lower-cased title is not
\* empty and not yet seen, appended to merged_list
RECURSIVE DedupInto(_, _, _)
DedupInto(merged_list, seen_titles, list) ==
    IF list = <<>> THEN merged_list
    ELSE LET title == lower(strip(Get(Head(list), "title", <<>>)))
         IN IF title # <<>> /\ title \notin seen_titles
            THEN DedupInto(Append(merged_list, Head(list)), seen_titles \cup {title}, Tail(list))
            ELSE DedupInto(merged_list, seen_titles, Tail(list))

SeenTitles(list) == {lower(strip(Get(item, "title", <<>>))) : item \in Range(list)}

\* lines 267-297
MergeSections(existing_doc, new_doc) ==
    LET existing_sections == Get(existing_doc, "sections", EmptyDict)
        new_sections == Get(new_doc, "sections", EmptyDict)
        all_keys == DOMAIN existing_sections \cup DOMAIN new_sections
    IN [key \in all_keys |->
          LET e_list == Get(existing_sections, key, <<>>)
              n_list == Get(new_sections, key, <<>>)
              first == DedupInto(<<>>, {}, e_list)
          IN DedupInto(first, SeenTitles(first), n_list)]

\* The plan taken from the existing document first.
MergeWeeklyPlanKeepExisting(existing_doc, new_doc) ==
    Get(existing_doc, "weekly_plan", Get(new_doc, "weekly_plan", <<>>))

\* line 300
MergeWeeklyPlan(existing_doc, new_doc) ==
    Get(new_doc, "weekly_plan", Get(existing_doc, "weekly_plan", EmptyDict))

\* One call of merge_data: ret is what it returns, existing and new_data are
\* the two argument objects when it returns.
MergeRun(existing_doc, new_doc) ==
    IF ~Truthy(existing_doc)
    THEN [ret |-> new_doc, existing |-> existing_doc, new_data |-> new_doc]
    ELSE Only({
           [ret |-> [timeline |-> t.timeline,
                     sections |-> MergeSections(existing_doc, new_doc),
                     weekly_plan |-> MergeWeeklyPlan(existing_doc, new_doc)],
            existing |-> IF "timeline" \in DOMAIN existing_doc
                         THEN [existing_doc EXCEPT !.timeline = t.ex] ELSE existing_doc,
            new_data |-> IF "timeline" \in DOMAIN new_doc
                         THEN [new_doc EXCEPT !.timeline = t.nw] ELSE new_doc]
           : t \in {MergeTimeline(existing_doc, new_doc)} })

merge_data(existing_doc, new_doc) == MergeRun(existing_doc, new_doc).ret

(***************************************************************************)
(* Each pipeline is a process of its own: while one runs, the state of the *)
(* other stays as it is before its first step.                             *)
(***************************************************************************)
Date(y, m, d) == [y |-> y, m |-> m, d |-> d]

BriefIdle ==
    /\ model = FALSE
    /\ HAS_SUMY = FALSE
    /\ source = "THE_HINDU"
    /\ section = [page |-> "Front Page", articles |-> <<>>]
    /\ pc = "fetch"
    /\ result = NoneDict
    /\ tiers = <<>>
    /\ llm = [kind |-> "none"]
    /\ sumy = [kind |-> "none"]
    /\ translation = [kind |-> "none"]
    /\ data = NoneDict
    /\ written = NoneDict

UpAheadIdle ==
    /\ today = Date(2024, 1, 1)
    /\ persisted = NoneDict
    /\ runs = 0
    /\ today_in = Date(2024, 1, 1)
    /\ existing_in = NoneDict
    /\ new_in = NoneDict
    /\ existing = NoneDict
    /\ new_data = NoneDict
    /\ merged = NoneDict

FallbackIdle ==
    /\ entries = <<>>
    /\ headlines = NoneStr
    /\ fallback = NoneDict

(***************************************************************************)
(* daily_brief.py: main, one section of one source (lines 403-447)         *)
(***************************************************************************)
\* Titles a scraper can deliver: plain, padded with white space, blank.
TitlePool == {<<"A">>, <<" ", "B", " ">>, <<" ">>}

\* What fetch_article_body can return: nothing, or a text of 99, 100 or 3001
\* characters.
BodyPool == {<<>>, Run("a", 99), Run("a", 100), Run("a", BODY_CAP + 1)}

Article(title, k) == [title |-> title, link |-> k]

\* A list of n articles with pairwise different titles "Na", "Nb", ...
Numbered(n) == [k \in 1..n |-> Article(<<"N", LowerCase[k]>>, k)]

ShortLists ==
    UNION {{[k \in 1..n |-> Article(f[k], k)] : f \in [1..n -> TitlePool]}
           : n \in 1..MaxShort}

\* The sections the fetchers deliver: every section has at least one article.
ArticleLists == ShortLists \cup {Numbered(n) : n \in (MaxShort + 1)..MaxArticles}

Sources == {"THE_HINDU", "DINAMANI"}

BriefInit ==
    /\ model \in BOOLEAN
    /\ HAS_SUMY \in BOOLEAN
    /\ source \in Sources
    /\ section \in {[page |-> "Front Page", articles |-> a] : a \in ArticleLists}
    /\ pc = "fetch"
    /\ result = NoneDict
    /\ tiers = <<>>
    /\ llm = [kind |-> "none"]
    /\ sumy = [kind |-> "none"]
    /\ translation = [kind |-> "none"]
    /\ data = NoneDict
    /\ written = NoneDict
    /\ UpAheadIdle
    /\ FallbackIdle

\* lines 405-409: article['body'] = body[:3000] for each fetched body
WithBodies(articles, fetched) ==
    [k \in 1..Len(articles) |->
        IF k <= BODY_FETCH_LIMIT /\ fetched[k] # <<>>
        THEN Put(articles[k], "body", TextPrefix(fetched[k], BODY_CAP))
        ELSE articles[k]]

FetchBodies ==
    /\ pc = "fetch"
    /\ \E fetched \in [1..Min(Len(section.articles), BODY_FETCH_LIMIT) -> BodyPool] :
          /\ Cardinality({k \in DOMAIN fetched : fetched[k] # <<>>}) <= MaxBodies
          /\ section' = [section EXCEPT !.articles = WithBodies(@, fetched)]
    /\ pc' = "summarize"
    /\ UNCHANGED <<model, HAS_SUMY, source, result, tiers, llm, sumy, translation,
                   data, written>>
    /\ UNCHANGED <<upVars, fbVars>>

\* lines 414-422: the result is recorded on the section
ApplyResult(sec, res) ==
    IF res = NoneDict THEN sec
    ELSE IF "error" \in DOMAIN res THEN Put(sec, "error", res.error)
    ELSE LET s1 == Put(sec, "summary", res.summary)
             s2 == IF "method" \in DOMAIN res
                   THEN Put(s1, "summary_method", res.method) ELSE s1
         IN IF "summary_ta" \in DOMAIN res
            THEN Put(s2, "summary_ta", res.summary_ta) ELSE s2

\* whether this run of summarize_section reached the sumy library (line 90)
SumyReached(run, articles) ==
    /\ \E i \in 1..Len(run.tiers) : run.tiers[i] = "extractive"
    /\ HAS_SUMY
    /\ TextLen(Combined(articles)) >= SUMY_MIN

Summarize ==
    /\ pc = "summarize"
    /\ \E llmOut \in (IF model THEN LlmOutcomes ELSE {[kind |-> "unavailable"]}),
           sumyOut \in SumyOutcomes :
        \E run \in {SectionRun(source, section.page, section.articles,
                               llmOut, sumyOut)} :
             /\ result' = run.ret
             /\ tiers' = run.tiers
             /\ llm' = llmOut
             /\ sumy' = IF SumyReached(run, section.articles)
                        THEN sumyOut ELSE [kind |-> "none"]
             /\ section' = ApplyResult(section, run.ret)
    /\ pc' = "translate"
    /\ UNCHANGED <<model, HAS_SUMY, source, translation, data, written>>
    /\ UNCHANGED <<upVars, fbVars>>

\* What the LLM answers to the translation prompt (line 208): numbered lines,
\* well formed or not, or an exception.
TranslationTexts ==
    { <<>>,
      <<"T">>,
      <<"1", ".", " ", "T">>,
      <<"1", ".", " ", "T", "\n", "2", ".", " ", "U">>,
      <<"2", ".", " ", "U", "\n", "3", ".", " ", "F">>,
      <<"x", ".", " ", "T", "\n", " ", "2", ".", "U", ".", "v", " ">>,
      <<"0", ".", " ", "Z", "\n", "-", "1", ".", "Z">> }
TranslationOutcomes ==
    {[kind |-> "text", text |-> t] : t \in TranslationTexts} \cup {[kind |-> "raise"]}

\* line.split('.', 1)
split1(s, sep) ==
    LET i == find(s, sep)
    IN IF i = 0 THEN <<s>>
       ELSE <<SubSeq(s, 1, i - 1), SubSeq(s, i + Len(sep), Len(s))>>

\* int(s) for a stripped str: [int |-> n] for an optional sign and decimal
\* digits, else ValueError
int(s) ==
    LET digits == IF s # <<>> /\ s[1] \in {"+", "-"} THEN Tail(s) ELSE s
    IN IF digits = <<>> \/ ~AllDigits(digits) THEN ValueError
       ELSE IF s[1] = "-" THEN [int |-> 0 - IntOf(digits)]
       ELSE [int |-> IntOf(digits)]

\* The lines of the answer attributed by their position.
ApplyByPosition(articles, lines) ==
    [k \in 1..Len(articles) |->
        IF k <= Len(lines) /\ Len(split1(lines[k], <<".">>)) = 2
        THEN Put(articles[k], "title_en", strip(split1(lines[k], <<".">>)[2]))
        ELSE articles[k]]

\* lines 209-217: the lines of the answer, applied in order
RECURSIVE ApplyTranslations(_, _)
ApplyTranslations(articles, lines) ==
    IF lines = <<>> THEN articles
    ELSE LET parts == split1(Head(lines), <<".">>)
             n == IF Len(parts) = 2 THEN int(strip(parts[1])) ELSE ValueError
             idx == IF n = ValueError THEN 0 - 1 ELSE n.int - 1
             next == IF Len(parts) = 2 /\ n # ValueError
                        /\ 0 <= idx /\ idx < Len(articles)
                     THEN [articles EXCEPT ![idx + 1] =
                              Put(@, "title_en", strip(parts[2]))]
                     ELSE articles
         IN ApplyTranslations(next, Tail(lines))

\* lines 193-219, for its effect on the articles; out is the LLM's answer
translate_titles_batch(articles, out) ==
    IF ~model \/ articles = <<>> THEN articles
    ELSE IF out.kind = "raise" THEN articles
    ELSE ApplyTranslations(articles, split(strip(out.text), <<"\n">>))

\* lines 425-430
Translate ==
    /\ pc = "translate"
    /\ IF source \in {"DINAMANI", "DAILY_THANTHI"} /\ model
       THEN \E out \in TranslationOutcomes :
               /\ section' = [section EXCEPT !.articles = translate_titles_batch(@, out)]
               /\ translation' = out
       ELSE section' = section /\ translation' = [kind |-> "none"]
    /\ pc' = "strip"
    /\ UNCHANGED <<model, HAS_SUMY, source, result, tiers, llm, sumy, data, written>>
    /\ UNCHANGED <<upVars, fbVars>>

\* The articles left as they are.
BodiesKept(articles) == articles

\* lines 434-435: article.pop('body', None) for every article
WithoutBodies(articles) == [k \in 1..Len(articles) |-> Pop(articles[k], "body")]

StripBodies ==
    /\ pc = "strip"
    /\ section' = [section EXCEPT !.articles = WithoutBodies(@)]
    /\ pc' = "done"
    /\ UNCHANGED <<model, HAS_SUMY, source, result, tiers, llm, sumy, translation,
                   data, written>>
    /\ UNCHANGED <<upVars, fbVars>>

\* line 437: the sections of the source, here the one section, are collected
CollectSections ==
    /\ pc = "done"
    /\ data' = <<section>>
    /\ pc' = "collected"
    /\ UNCHANGED <<model, HAS_SUMY, source, section, result, tiers, llm, sumy,
                   translation, written>>
    /\ UNCHANGED <<upVars, fbVars>>

\* lines 439-442: an exception leaves step 1 or step 2 of the loop body, which
\* have no handler of their own, and the source is recorded with no sections
Fail ==
    /\ pc \in {"fetch", "summarize"}
    /\ data' = <<>>
    /\ pc' = "collected"
    /\ UNCHANGED <<model, HAS_SUMY, source, section, result, tiers, llm, sumy,
                   translation, written>>
    /\ UNCHANGED <<upVars, fbVars>>

\* lines 445-447: json.dump(data, f)
WriteOutput ==
    /\ pc = "collected"
    /\ written' = data
    /\ pc' = "written"
    /\ UNCHANGED <<model, HAS_SUMY, source, section, result, tiers, llm, sumy,
                   translation, data>>
    /\ UNCHANGED <<upVars, fbVars>>

BriefNext ==
    \/ FetchBodies \/ Summarize \/ Translate \/ StripBodies
    \/ CollectSections \/ Fail \/ WriteOutput

SpecBrief == BriefInit /\ [][BriefNext]_vars

(***************************************************************************)
(* up_ahead.py: main (lines 304-337), run once or more, on one day or the  *)
(* next                                                                    *)
(***************************************************************************)
Digits2(n) == <<DigitChars[(n \div 10) + 1], DigitChars[(n % 10) + 1]>>

\* the string "YYYY-MM-DD" of a year of four digits
IsoDate(y, m, d) ==
    Digits2(y \div 100) \o Digits2(y % 100) \o <<"-">> \o Digits2(m) \o <<"-">> \o Digits2(d)

Day1 == IsoDate(2024, 1, 1)
Day2 == IsoDate(2024, 1, 2)
NoSuchDay == IsoDate(2024, 2, 30)

Item(id, title) == [id |-> id, title |-> title]
ItemX == Item("1", <<"X">>)
Itemx == Item("2", <<"x">>)
ItemY == Item("3", <<"Y">>)
Itemy == Item("4", <<"y">>)

Bucket(date, items) == [date |-> date, dayLabel |-> "day", items |-> items]

BucketPool ==
    { Bucket(Day1, <<ItemX>>),
      Bucket(Day2, <<ItemX>>),
      Bucket(Day2, <<Itemx, ItemY>>),
      Bucket(Day2, <<ItemY, Itemy>>),
      Bucket(NoSuchDay, <<ItemX>>) }

\* Timelines as the LLM may write them: dates may repeat and be out of order.
TimelinePool ==
    {<<>>} \cup {<<a>> : a \in BucketPool} \cup {<<a, b>> : a, b \in BucketPool}

Movie(title) == [title |-> title, language |-> "ta"]
Festival(title) == [title |-> title, date |-> Day2]
Alert(text) == [text |-> text, severity |-> "high"]

NoSections == [movies |-> <<>>, festivals |-> <<>>, alerts |-> <<>>]

SectionsPool ==
    { [movies |-> <<Movie(<<"X">>)>>, festivals |-> <<>>, alerts |-> <<>>],
      [movies |-> <<Movie(<<"x">>), Movie(<<" ", "Y">>)>>, festivals |-> <<>>,
       alerts |-> <<>>],
      [festivals |-> <<Festival(<<"Y">>)>>],
      [movies |-> <<>>, festivals |-> <<>>, alerts |-> <<Alert(<<"r">>)>>] }

Plan(text) == [monday |-> text]

\* What generate_up_ahead_data or generate_fallback_data hands to merge_data.
IncomingDocs ==
    {[timeline |-> t, sections |-> NoSections, weekly_plan |-> Plan("a")] : t \in TimelinePool}
    \cup {[timeline |-> <<>>, sections |-> s, weekly_plan |-> Plan("b")] : s \in SectionsPool}
    \cup {[timeline |-> <<Bucket(Day2, <<ItemX>>)>>, sections |-> NoSections],
          [weekly_plan |-> Plan("c")]}

UpAheadInit == BriefIdle /\ UpAheadIdle /\ FallbackIdle

\* lines 307-335: a new document is generated, merged with the stored one,
\* stamped and stored
RunUpAhead ==
    /\ runs < MaxRuns
    /\ \E doc \in IncomingDocs :
        \E run \in {MergeRun(persisted, doc)} :
          LET existing_data == persisted
              final_data == Put(run.ret, "lastUpdated", today)
          IN /\ today_in' = today
             /\ existing_in' = existing_data
             /\ new_in' = doc
             /\ merged' = run.ret
             /\ existing' = run.existing
             /\ new_data' = IF Truthy(existing_data) THEN run.new_data ELSE final_data
             /\ persisted' = final_data
    /\ runs' = runs + 1
    /\ UNCHANGED today
    /\ UNCHANGED <<briefVars, fbVars>>

\* midnight passes between two runs
NextDay ==
    /\ today.d < LastDay
    /\ today' = Date(today.y, today.m, today.d + 1)
    /\ UNCHANGED <<persisted, runs, today_in, existing_in, new_in, existing,
                   new_data, merged>>
    /\ UNCHANGED <<briefVars, fbVars>>

UpAheadNext == RunUpAhead \/ NextDay

SpecUpAhead == UpAheadInit /\ [][UpAheadNext]_vars

(***************************************************************************)
(* up_ahead.py: fetch_rss_feeds and generate_fallback_data                 *)
(***************************************************************************)
\* lines 81-85
noise_words ==
    { <<"r", "e", "v", "i", "e", "w">>,
      <<"g", "o", "s", "s", "i", "p">>,
      <<"r", "u", "m", "o", "u", "r">>,
      <<"s", "p", "o", "t", "t", "e", "d">>,
      <<"d", "a", "t", "i", "n", "g">>,
      <<"b", "o", "x", " ", "o", "f", "f", "i", "c", "e">>,
      <<"c", "o", "l", "l", "e", "c", "t", "i", "o", "n">>,
      <<"s", "h", "o", "c", "k", "i", "n", "g">>,
      <<"v", "i", "r", "a", "l">>,
      <<"v", "i", "d", "e", "o">>,
      <<"p", "h", "o", "t", "o">>,
      <<"l", "e", "a", "k", "e", "d">>,
      <<"r", "e", "n", "a", "m", "e", "d">>,
      <<"l", "o", "c", "k", "s", " ", "r", "e", "l", "e", "a", "s", "e", " ",
        "d", "a", "t", "e">>,
      <<"c", "a", "s", "t", "s">>,
      <<"p", "r", "o", "d", "u", "c", "e", "r">>,
      <<"c", "o", "u", "r", "t">>,
      <<"p", "e", "t", "i", "t", "i", "o", "n">>,
      <<"a", "r", "r", "e", "s", "t", "e", "d">>,
      <<"s", "t", "e", "a", "l", "i", "n", "g">>,
      <<"s", "e", "w", "a", "g", "e">>,
      <<"w", "a", "r", "n", "s">>,
      <<"t", "a", "l", "k", "s">>,
      <<"d", "e", "a", "l">>,
      <<"f", "i", "n", "a", "n", "c", "i", "a", "l", " ", "r", "e", "s", "u",
        "l", "t", "s">>,
      <<"b", "o", "a", "r", "d", " ", "m", "e", "e", "t", "i", "n", "g">>,
      <<"f", "o", "g">>,
      <<"m", "i", "s", "t">> }

\* What the feeds deliver: the titles of feed entries.
HeadlinePool ==
    { <<"L", "e", "o", " ", "M", "o", "v", "i", "e", " ", "R", "e", "v", "i",
        "e", "w", " ", "S", "h", "o", "c", "k", "i", "n", "g", " ", "B", "o",
        "x", " ", "O", "f", "f", "i", "c", "e", " ", "N", "u", "m", "b", "e",
        "r", "s">>,
      <<"L", "e", "o", " ", "r", "e", "l", "e", "a", "s", "e">>,
      <<"P", "o", "n", "g", "a", "l", " ", "f", "e", "s", "t", "i", "v", "a",
        "l">>,
      <<"R", "a", "i", "n", " ", "a", "l", "e", "r", "t">>,
      <<"C", "r", "i", "c", "k", "e", "t", " ", "m", "a", "t", "c", "h">>,
      <<"F", "o", "g", " ", "a", "l", "e", "r", "t">>,
      <<"C", "i", "t", "y", " ", "(", "n", "e", "w", ")">>,
      <<"V", "I", "R", "A", "L", " ", "h", "o", "l", "i", "d", "a", "y">> }

Entry(title, link) == [title |-> title, link |-> link]

\* The entries of the feeds, MaxEntries at most.
EntryLists ==
    UNION {[1..n -> {Entry(t, <<"u">>) : t \in HeadlinePool}] : n \in 0..MaxEntries}

\* lines 43-48: "- title (link)" for each entry, joined by line breaks
fetch_rss_feeds(feed_entries) ==
    join(<<"\n">>,
         [k \in 1..Len(feed_entries) |->
             <<"-", " ">> \o feed_entries[k].title \o <<" ", "(">>
             \o feed_entries[k].link \o <<")">>])

\* sub in s
Contains(s, sub) == find(s, sub) # 0

\* s.rsplit(sep, 1)
rsplit1(s, sep) ==
    LET hits == {i \in 1..Len(s) :
                    /\ i + Len(sep) - 1 <= Len(s)
                    /\ SubSeq(s, i, i + Len(sep) - 1) = sep}
        i == CHOOSE h \in hits : \A g \in hits : g <= h
    IN IF hits = {} THEN <<s>>
       ELSE <<SubSeq(s, 1, i - 1), SubSeq(s, i + Len(sep), Len(s))>>

\* lines 73-78: the type of a headline, from its lower-cased title
Category(lower_title) ==
    IF \E w \in {<<"m", "o", "v", "i", "e">>,
                 <<"r", "e", "v", "i", "e", "w">>,
                 <<"r", "e", "l", "e", "a", "s", "e">>} :
          Contains(lower_title, w)
    THEN "movie"
    ELSE IF \E w \in {<<"f", "e", "s", "t", "i", "v", "a", "l">>,
                      <<"h", "o", "l", "i", "d", "a", "y">>} :
          Contains(lower_title, w)
    THEN "festival"
    ELSE IF \E w \in {<<"c", "r", "i", "c", "k", "e", "t">>,
                      <<"m", "a", "t", "c", "h">>} :
          Contains(lower_title, w)
    THEN "sport"
    ELSE IF \E w \in {<<"r", "a", "i", "n">>, <<"a", "l", "e", "r", "t">>} :
          Contains(lower_title, w)
    THEN "alert"
    ELSE "event"

\* The noise test skipped for a headline classified as a movie.
IsNoiseUnlessMovie(cat, lower_title) ==
    cat # "movie" /\ \E w \in noise_words : Contains(lower_title, w)

\* line 87: any(w in lower for w in noise_words)
IsNoise(cat, lower_title) == \E w \in noise_words : Contains(lower_title, w)

\* str(abs(hash(title))): a digest the title determines
Digest(title) == <<"#">> \o title

\* lines 62-100: the items of the lines lines[k..]
RECURSIVE FallbackItems(_, _)
FallbackItems(lines, k) ==
    IF k > Len(lines) THEN <<>>
    ELSE LET line == lines[k]
             parts == rsplit1(SubSeq(line, 3, Len(line)), <<" ", "(">>)
             title == parts[1]
             link == IF Len(parts) > 1
                     THEN SubSeq(parts[2], 1, Len(parts[2]) - 1) ELSE <<>>
             cat == Category(lower(title))
         IN (IF Len(line) < 2 \/ SubSeq(line, 1, 2) # <<"-", " ">> THEN <<>>
             ELSE IF IsNoise(cat, lower(title)) THEN <<>>
             ELSE << [id |-> Digest(title), type |-> cat, title |-> title,
                      subtitle |-> "From RSS", description |-> "Latest update",
                      link |-> link, tags |-> <<cat>>] >>)
            \o FallbackItems(lines, k + 1)

\* [{"title": ..., "text": ..., "link": ...} for i in items if i["type"] == cat]
OfType(items, cat) ==
    LET chosen == SelectSeq(items, LAMBDA i : i.type = cat)
    IN [k \in 1..Len(chosen) |->
          [title |-> chosen[k].title, text |-> chosen[k].title, link |-> chosen[k].link]]

\* line 112
AlertsOf(items) ==
    LET chosen == SelectSeq(items, LAMBDA i : i.type = "alert")
    IN [k \in 1..Len(chosen) |-> [text |-> chosen[k].title, severity |-> "medium"]]

\* lines 50-121
generate_fallback_data(headlines_text) ==
    LET items == FallbackItems(split(headlines_text, <<"\n">>), 1)
        today_str == IsoDate(today.y, today.m, today.d)
    IN [timeline |-> << [date |-> today_str, dayLabel |-> "Latest Updates",
                         items |-> SubSeq(items, 1, Min(Len(items), FALLBACK_ITEMS))] >>,
        sections |-> [movies |-> OfType(items, "movie"),
                      festivals |-> OfType(items, "festival"),
                      alerts |-> AlertsOf(items)],
        weekly_plan |-> [note |-> "AI generation unavailable. Showing latest RSS feeds."]]

FallbackInit ==
    /\ entries \in EntryLists
    /\ headlines = NoneStr
    /\ fallback = NoneDict
    /\ BriefIdle
    /\ UpAheadIdle

\* line 307
FetchFeeds ==
    /\ headlines = NoneStr
    /\ headlines' = fetch_rss_feeds(entries)
    /\ UNCHANGED <<entries, fallback>>
    /\ UNCHANGED <<briefVars, upVars>>

\* lines 312-314, the AI generation having failed
GenerateFallback ==
    /\ headlines # NoneStr
    /\ fallback = NoneDict
    /\ \E doc \in {generate_fallback_data(headlines)} : fallback' = doc
    /\ UNCHANGED <<entries, headlines>>
    /\ UNCHANGED <<briefVars, upVars>>

FallbackNext == FetchFeeds \/ GenerateFallback

SpecFallback == FallbackInit /\ [][FallbackNext]_vars

(***************************************************************************)
(* Claims about the summarizer.  They are read in the states in which      *)
(* summarize_section has returned: at "translate" the articles are still   *)
(* the ones it was given, bodies included.                                 *)
(***************************************************************************)
Summarized == pc \in {"translate", "strip", "done"} \/ (pc \in {"collected", "written"} /\ data # <<>>)

Attempted(t) == \E i \in 1..Len(tiers) : tiers[i] = t

HasKey(d, k) == k \in DOMAIN d

\* The AI tier handed back a summary (possibly an empty one).
AiReturned == model /\ llm.kind = "text"

\* The lengths of the non-empty bodies of the articles, in order.
RECURSIVE BodyLengths(_)
BodyLengths(articles) ==
    IF articles = <<>> THEN <<>>
    ELSE (IF HasKey(Head(articles), "body") /\ TextLen(Head(articles).body) > 0
          THEN <<TextLen(Head(articles).body)>> ELSE <<>>)
         \o BodyLengths(Tail(articles))

RECURSIVE SumSeq(_)
SumSeq(q) == IF q = <<>> THEN 0 ELSE Head(q) + SumSeq(Tail(q))

\* The length of the first 5 non-empty bodies joined by two line breaks.
CombinedLength ==
    LET lens == BodyLengths(section.articles)
        used == SubSeq(lens, 1, Min(Len(lens), 5))
    IN IF used = <<>> THEN 0 ELSE SumSeq(used) + 2 * (Len(used) - 1)

\* C1: for a non-empty article list and every outcome of the LLM and of the
\* extractive summarizer, the result of summarize_section carries exactly one
\* of the keys 'summary' and 'error', and so does the section main records it on.
C1_ExactlyOneOfSummaryError ==
    (Summarized /\ section.articles # <<>>) =>
        /\ HasKey(result, "summary") # HasKey(result, "error")
        /\ HasKey(section, "summary") # HasKey(section, "error")

\* A run in which every tier fails: the LLM raises, no body text, blank titles.
C1_Witness ==
    /\ pc = "translate"
    /\ llm.kind = "raise"
    /\ Attempted("headlines")
    /\ HasKey(result, "error")
    /\ ~HasKey(result, "summary")

\* C2: with at least one article summarize_section never returns an error: the
\* headlines tier succeeds and the result carries a 'summary'.
C2_ErrorOnlyWhenEmpty ==
    (Summarized /\ Len(section.articles) >= 1) =>
        /\ HasKey(result, "summary")
        /\ ~HasKey(result, "error")

\* What the last attempted tier yielded, as far as the history tells.
LastTierSummary ==
    LET last == tiers[Len(tiers)]
    IN IF last = "ai" THEN _summarize_gemini(source, section.page, section.articles, llm).summary
       ELSE IF last = "extractive" THEN sumy.text
       ELSE summarize_headline_bullets(section.articles)

\* C3: the tiers are tried in the order AI, extractive, headlines, a tier only
\* after every earlier tier yielded nothing, and the returned summary and method
\* are those of the first tier that yielded a non-empty summary.
C3_FirstNonEmptyTierWins ==
    pc = "translate" =>
        /\ \A i, j \in 1..Len(tiers) :
              i < j => \/ tiers[i] = "ai"
                       \/ (tiers[i] = "extractive" /\ tiers[j] = "headlines")
        /\ (Attempted("extractive") \/ Attempted("headlines")) => ~AiReturned
        /\ (Attempted("extractive") /\ Attempted("headlines")) =>
              (sumy.kind # "text" \/ sumy.text = <<>>)
        /\ HasKey(result, "summary") =>
              /\ result.summary # <<>>
              /\ result.summary = LastTierSummary
              /\ IF tiers[Len(tiers)] = "ai" THEN ~HasKey(result, "method")
                 ELSE HasKey(result, "method") /\ result.method = tiers[Len(tiers)]

\* C4: after a 429-class (resp. 403-class) failure of the AI call the result is
\* the error 'Quota Exceeded' (resp. 'Invalid API Key') exactly when no lower
\* tier produced a summary; otherwise it is that tier's summary and no error.
C4_QuotaErrorIffNoLowerTier ==
    (pc = "translate" /\ model /\ llm.kind = "raise" /\ (llm.has429 \/ llm.has403)) =>
        LET category == IF llm.has429 THEN "Quota Exceeded" ELSE "Invalid API Key"
        IN /\ (result = [error |-> category]) <=> ~HasKey(result, "summary")
           /\ HasKey(result, "summary") =>
                 /\ ~HasKey(result, "error")
                 /\ result.method \in {"extractive", "headlines"}

\* C5 as stated: when the AI tier returned nothing, the extractive tier is
\* skipped exactly when the combined text is shorter than 200 characters.
C5_SkippedBelow200 ==
    (pc = "translate" /\ ~AiReturned) =>
        (Attempted("extractive") <=> CombinedLength >= 200)

\* C5 as amended: when the AI tier returned nothing, the extractive tier is
\* entered exactly when the combined text is longer than 200 characters; a
\* combined length of exactly 200 skips it.
C5_EnteredAbove200 ==
    (pc = "translate" /\ ~AiReturned) =>
        (Attempted("extractive") <=> CombinedLength > 200)

\* Two bodies totalling 199 characters, 201 once joined: the tier is entered.
C5_Witness ==
    /\ pc = "translate"
    /\ ~AiReturned
    /\ BodyLengths(section.articles) \in {<<99, 100>>, <<100, 99>>}
    /\ CombinedLength = 201
    /\ Attempted("extractive")

\* The first min(n, 10) titles as bullet lines, verbatim.
VerbatimBullets(articles) ==
    join(<<"\n">>, [k \in 1..Min(Len(articles), 10) |->
                        <<"*", " ">> \o articles[k].title])

\* C6: with the AI tier unavailable and no body text, the result for n >= 1
\* articles is the headlines tier's: min(n, 10) bullet lines, line k the title of
\* article k verbatim.
C6_HeadlinesFromFirstTenTitles ==
    (pc = "translate" /\ ~model /\ BodyLengths(section.articles) = <<>>) =>
        /\ HasKey(result, "summary") /\ HasKey(result, "method")
        /\ result.method = "headlines"
        /\ result.summary = VerbatimBullets(section.articles)

\* the lines of the translator's answer, as line 209 takes them
AnswerLines(text) == split(strip(text), <<"\n">>)

\* int of what precedes the first "." of the line, ValueError without a "."
NumberOf(line) ==
    LET i == find(line, <<".">>)
    IN IF i = 0 THEN ValueError ELSE int(strip(SubSeq(line, 1, i - 1)))

\* what follows the first "." of the line, trimmed
AfterPrefix(line) == strip(SubSeq(line, find(line, <<".">>) + 1, Len(line)))

\* C16: translate_titles_batch gives the article at 1-based position n the text
\* of the last answer line whose numeric prefix parses to n as its title_en and
\* changes nothing else: an article no line is numbered for, every title, and,
\* when the LLM call fails or is not made, every article stay as they were; the
\* step always ends.
C16_TranslationsByNumber ==
    [][ pc = "translate" =>
          /\ pc' = "strip"
          /\ Len(section'.articles) = Len(section.articles)
          /\ \E lines \in {IF translation'.kind = "text"
                           THEN AnswerLines(translation'.text) ELSE <<>>} :
             \E number \in {[k \in 1..Len(lines) |-> NumberOf(lines[k])]} :
                \A n \in 1..Len(section.articles) :
                   LET hits == {k \in 1..Len(lines) : number[k] = [int |-> n]}
                       last == CHOOSE k \in hits : \A h \in hits : h <= k
                   IN /\ section'.articles[n].title = section.articles[n].title
                      /\ IF hits = {}
                         THEN section'.articles[n] = section.articles[n]
                         ELSE section'.articles[n] =
                                 Put(section.articles[n], "title_en",
                                     AfterPrefix(lines[last])) ]_vars

\* Two articles and the answer "2. U" / "3. F": the first line goes to the
\* second article and the second line is dropped.
C16_Witness ==
    /\ pc = "strip"
    /\ translation.kind = "text"
    /\ translation.text = <<"2", ".", " ", "U", "\n", "3", ".", " ", "F">>
    /\ Len(section.articles) = 2
    /\ ~HasKey(section.articles[1], "title_en")
    /\ section.articles[2].title_en = <<"U">>

\* C18: in the document written to OUTPUT_FILE no article of any section has a
\* 'body', whatever bodies were fetched and whether or not a step raised.
C18_NoBodyWritten ==
    pc = "written" =>
        \A k \in 1..Len(written) :
            \A a \in 1..Len(written[k].articles) :
                ~HasKey(written[k].articles[a], "body")

\* A section summarized from its fetched bodies is written.
C18_Witness ==
    /\ pc = "written"
    /\ Len(written) = 1
    /\ HasKey(written[1], "summary_method")
    /\ written[1].summary_method = "extractive"

(***************************************************************************)
(* Claims about generate_fallback_data, read once it has returned.         *)
(***************************************************************************)
\* the lower-cased title holds a noise keyword
Noisy(title) == \E w \in noise_words : find(lower(title), w) # 0

\* the titles of the items of the today bucket and of the category lists
OutputTitles ==
    {item.title : item \in UNION {Range(b.items) : b \in Range(fallback.timeline)}}
    \cup {item.title : item \in Range(fallback.sections.movies)}
    \cup {item.title : item \in Range(fallback.sections.festivals)}
    \cup {item.text : item \in Range(fallback.sections.alerts)}

\* C17: a headline whose lower-cased title holds a noise keyword is in no
\* bucket and no category list of the fallback document, whatever its type, and
\* no title of the document holds a noise keyword.
C17_NoiseExcluded ==
    fallback # NoneDict =>
        /\ \A t \in OutputTitles : ~Noisy(t)
        /\ \A k \in 1..Len(entries) :
              Noisy(entries[k].title) => entries[k].title \notin OutputTitles

\* A noisy headline that classifies as a movie next to a clean movie headline:
\* the document has the clean one alone.
C17_Witness ==
    /\ fallback # NoneDict
    /\ \E k, j \in 1..Len(entries) :
          /\ Noisy(entries[k].title)
          /\ Category(lower(entries[k].title)) = "movie"
          /\ ~Noisy(entries[j].title)
          /\ Len(fallback.sections.movies) = 1
          /\ fallback.sections.movies[1].title = entries[j].title
          /\ Len(fallback.timeline[1].items) = 1

(***************************************************************************)
(* Claims about merge_data.  They are read after a run of main, of the     *)
(* last call merge_data(existing_in, new_in) on the day today_in.          *)
(***************************************************************************)
\* merge_data was called with a stored document
Merged == runs > 0 /\ Truthy(existing_in)

TimelineOf(doc) == Get(doc, "timeline", <<>>)

DatedOnOrAfter(bucket, day) ==
    strptime(bucket.date) # ValueError /\ DateGE(strptime(bucket.date), day)

DatedBefore(bucket, day) ==
    strptime(bucket.date) # ValueError /\ ~DateGE(strptime(bucket.date), day)

\* the buckets of a timeline whose date string is d, in order
BucketsOn(timeline, d) == SelectSeq(timeline, LAMBDA b : b.date = d)

IsPrefix(p, q) == Len(p) <= Len(q) /\ SubSeq(q, 1, Len(p)) = p

\* the key by which items are told apart: the trimmed, lower-cased title
Key(item) == lower(strip(Get(item, "title", <<>>)))
Keys(items) == {Key(item) : item \in Range(items)}

\* all items of the buckets of a timeline whose date string is d
ItemsOn(timeline, d) == UNION {Range(b.items) : b \in Range(BucketsOn(timeline, d))}

\* merge_data was called with the stored copy of the very document it is given
SameDocument == Merged /\ Pop(existing_in, "lastUpdated") = new_in

\* C7: merge_data(D, D) is D up to the past-dated buckets and the order of the
\* buckets: no bucket or category gains an item, and no item of a bucket dated
\* today or later and no item of a category list is lost.
C7_MergeWithItselfKeepsAll ==
    SameDocument =>
        /\ \A rb \in Range(TimelineOf(merged)) :
              LET given == BucketsOn(TimelineOf(new_in), rb.date)
              IN /\ Range(rb.items) \subseteq ItemsOn(TimelineOf(new_in), rb.date)
                 /\ Len(rb.items) <= SumSeq([i \in 1..Len(given) |-> Len(given[i].items)])
        /\ \A b \in Range(TimelineOf(new_in)) :
              DatedOnOrAfter(b, today_in) =>
                 Keys(b.items) \subseteq
                    UNION {Keys(rb.items) : rb \in Range(BucketsOn(TimelineOf(merged), b.date))}
        /\ \A k \in DOMAIN Get(new_in, "sections", EmptyDict) :
              /\ k \in DOMAIN merged.sections
              /\ Len(merged.sections[k]) <= Len(new_in.sections[k])
              /\ Keys(new_in.sections[k]) \subseteq Keys(merged.sections[k])

C9_NoPastBucketInResult ==
    Merged => \A rb \in Range(TimelineOf(merged)) : ~DatedBefore(rb, today_in)

NoTwoAlike(items) ==
    \A i, j \in 1..Len(items) : i < j => Key(items[i]) # Key(items[j])

\* C11: after merge_data no timeline bucket and no category list of the result
\* holds two items whose lower-cased, trimmed titles are equal.
C11_ResultDeduplicated ==
    Merged =>
        /\ \A rb \in Range(TimelineOf(merged)) : NoTwoAlike(Get(rb, "items", <<>>))
        /\ \A k \in DOMAIN merged.sections : NoTwoAlike(merged.sections[k])

\* the items of the list at the indices of keep, in order
RECURSIVE Pick(_, _, _)
Pick(items, keep, i) ==
    IF i > Len(items) THEN <<>>
    ELSE (IF i \in keep THEN <<items[i]>> ELSE <<>>) \o Pick(items, keep, i + 1)

\* the items no earlier item of the list shares its key with
FirstOfEachKey(items) ==
    Pick(items,
         {i \in 1..Len(items) : \A j \in 1..(i - 1) : Key(items[j]) # Key(items[i])},
         1)

\* C12: for every category of either document the merged list is the existing
\* items followed by the new ones, an item being kept exactly when no earlier
\* item has its lower-cased, trimmed title; no category is dropped.
C12_SectionsExistingThenNew ==
    Merged =>
        LET es == Get(existing_in, "sections", EmptyDict)
            ns == Get(new_in, "sections", EmptyDict)
        IN \A k \in DOMAIN es \cup DOMAIN ns :
              /\ k \in DOMAIN merged.sections
              /\ merged.sections[k] =
                    FirstOfEachKey(Get(es, k, <<>>) \o Get(ns, k, <<>>))

\* C13: from one run to the next the persisted document loses no item of a
\* category list and no item of a timeline bucket dated on or after the day of
\* the later run.
C13_PersistedOnlyGrows ==
    [][ (Truthy(persisted) /\ runs' = runs + 1) =>
          /\ \A k \in DOMAIN Get(persisted, "sections", EmptyDict) :
                /\ k \in DOMAIN Get(persisted', "sections", EmptyDict)
                /\ Range(persisted.sections[k]) \subseteq Range(persisted'.sections[k])
          /\ \A b \in Range(TimelineOf(persisted)) :
                DatedOnOrAfter(b, today) =>
                   \A item \in Range(b.items) :
                      \E rb \in Range(TimelineOf(persisted')) :
                         rb.date = b.date /\ item \in Range(rb.items) ]_vars

\* C14: the timeline merge_data returns with a stored document is ascending by
\* date, as strings and as calendar dates, with one bucket per date at most.
C14_TimelineSortedOnePerDate ==
    Merged =>
        LET t == TimelineOf(merged)
        IN \A i, j \in 1..Len(t) :
              i < j =>
                 /\ StrLess(t[i].date, t[j].date)
                 /\ (strptime(t[i].date) # ValueError /\ strptime(t[j].date) # ValueError)
                       => ~DateGE(strptime(t[i].date), strptime(t[j].date))

\* The new timeline lists two days latest first and the stored document has a
\* bucket for the first of them: the result has the two days in order.
C14_Witness ==
    /\ Merged
    /\ Len(TimelineOf(new_in)) = 2
    /\ StrLess(TimelineOf(new_in)[2].date, TimelineOf(new_in)[1].date)
    /\ \E b \in Range(TimelineOf(existing_in)) :
          b.date = TimelineOf(new_in)[1].date /\ DatedOnOrAfter(b, today_in)
    /\ Len(TimelineOf(merged)) = 2
    /\ TimelineOf(merged)[1].date = TimelineOf(new_in)[2].date

\* C15: the merged weekly_plan is the new document's whenever it has the key,
\* and the stored document's only when the new document has no such key.
C15_WeeklyPlanReplaced ==
    Merged =>
        /\ HasKey(new_in, "weekly_plan") => merged.weekly_plan = new_in.weekly_plan
        /\ (~HasKey(new_in, "weekly_plan") /\ HasKey(existing_in, "weekly_plan"))
              => merged.weekly_plan = existing_in.weekly_plan

\* Both documents have a plan, and they differ: the result has the new one.
C15_Witness ==
    /\ Merged
    /\ HasKey(new_in, "weekly_plan") /\ HasKey(existing_in, "weekly_plan")
    /\ new_in.weekly_plan # existing_in.weekly_plan
    /\ merged.weekly_plan = new_in.weekly_plan

\* the document without the buckets whose date does not parse
WithoutUnparsed(doc) ==
    IF HasKey(doc, "timeline")
    THEN [doc EXCEPT !.timeline = SelectSeq(@, LAMBDA b : strptime(b.date) # ValueError)]
    ELSE doc

\* C19: a stored bucket whose date does not parse is discarded and the merge
\* completes: the result is the result of merging the stored document without
\* such buckets, and a date that does not parse is in the result only with the
\* items the new document has for it.
C19_UnparsedBucketDiscarded ==
    (Merged /\ today = today_in) =>
        /\ HasKey(merged, "timeline")
        /\ merged = merge_data(WithoutUnparsed(existing_in), new_in)
        /\ \A rb \in Range(TimelineOf(merged)) :
              strptime(rb.date) = ValueError =>
                 /\ BucketsOn(TimelineOf(new_in), rb.date) # <<>>
                 /\ Range(rb.items) \subseteq ItemsOn(TimelineOf(new_in), rb.date)

\* The stored document has a bucket whose date does not parse next to one dated
\* today or later: the result has the second and not the first.
C19_Witness ==
    /\ Merged
    /\ \E b, c \in Range(TimelineOf(existing_in)) :
          /\ strptime(b.date) = ValueError
          /\ DatedOnOrAfter(c, today_in)
          /\ BucketsOn(TimelineOf(merged), c.date) # <<>>
          /\ BucketsOn(TimelineOf(merged), b.date) = <<>>

\* the timeline has two buckets with the same date string
RepeatsDate(doc) ==
    \E b \in Range(TimelineOf(doc)) : Len(BucketsOn(TimelineOf(doc), b.date)) > 1

\* C20: when merge_data returns, the stored document and the new document hold
\* what they held when it was called (read for documents that have one bucket
\* per date).
C20_ArgumentsUnchanged ==
    (Merged /\ ~RepeatsDate(existing_in) /\ ~RepeatsDate(new_in)) =>
        (existing = existing_in /\ new_data = new_in)

====
